---- MODULE Spec2Model ----
(***************************************************************************)
(* rwalk: the crawl engine (recursive and classic runners), the cursor     *)
(* map that makes resume possible, and the SIGINT checkpoint protocol of   *)
(* _main.  One process is: startup (src/main.rs 92-199), the run task      *)
(* (coordinator + the workers it tokio::spawn's), the signal task and the  *)
(* main task.  A later process may be started with --resume from the save  *)
(* file the earlier one left.                                              *)
(*                                                                         *)
(* Indices: Rust sequences are 0-based, TLA+ sequences 1-based.  Cursor    *)
(* values are kept as in the code (0 .. len); chunk[index] of the code is  *)
(* chunk[index + 1] here, and chunk number i of the code is i + 1 here.    *)
(***************************************************************************)
EXTENDS Integers, Sequences, FiniteSets, TLC

VARIABLES
    opts,         \* Opts of the running process (the fields the engine reads)
    env,          \* the target server: which URLs answer how
    tree,         \* Arc<Mutex<Tree<TreeData>>>: the set of nodes
    depth,        \* Arc<Mutex<usize>>: the depth counter
    indexes,      \* current_indexes: HashMap<String, Vec<usize>>
    chunks,       \* Arc<Vec<Vec<String>>> (recursive) / url chunks (classic)
    has_saved,    \* main.rs:136
    coord,        \* the run task (core::start -> Runner::run), abortable
    workers,      \* the tokio::spawn'ed process_chunk tasks
    reqlog,       \* history: per worker, the chunk indices it sent a request for
    aborted,      \* AtomicBool `aborted`
    abort_handle, \* AbortHandle of the run task: abort() was called
    sig,          \* SIGINT stream: pending signals, delivered count, closed
    hand,         \* signals_task: position and the Save being assembled
    chan,         \* mpsc::channel::<()>(1): number of queued save-done messages
    main,         \* _main after the spawns: position
    file,         \* the save file on disk
    resumed,      \* history: what startup installed from the save file
    runs,         \* history: number of processes started so far
    exported      \* the output file (--output) on disk

vars == <<opts, env, tree, depth, indexes, chunks, has_saved, coord, workers,
          reqlog, aborted, abort_handle, sig, hand, chan, main, file,
          resumed, runs, exported>>

(***************************************************************************)
(* Bounds of the model.                                                    *)
(***************************************************************************)
MaxThreads == 2     \* configured thread counts 0 .. MaxThreads
MaxSignals == 1     \* SIGINTs delivered, over all the runs
MaxRuns    == 2     \* processes: a first run and resumed reruns
ManySignals == 3    \* SIGINTs delivered to one process (SpecSignals)

Min(a, b) == IF a < b THEN a ELSE b
Max(a, b) == IF a > b THEN a ELSE b

RECURSIVE SumSeq(_)
SumSeq(s) == IF s = <<>> THEN 0 ELSE s[1] + SumSeq(Tail(s))

Front(s) == SubSeq(s, 1, Len(s) - 1)

NoFile == [exists |-> FALSE]
NoSave == [pc |-> "idle"]
NoExport == [exists |-> FALSE]

(***************************************************************************)
(* Words and URLs are sequences of characters, so that the '/' rule of     *)
(* recursive.rs:158-162 is computed, not assumed.                          *)
(***************************************************************************)
WA == <<"a">>
WB == <<"b">>
WC == <<"c">>
UrlSlash   == <<"h", "/">>      \* a base URL ending in '/'
UrlNoSlash == <<"h">>           \* a base URL not ending in '/'

\* recursive.rs:158-162: url = parent url, exactly one '/', then the word
ChildUrl(url, word) ==
    IF url[Len(url)] = "/" THEN url \o word ELSE url \o <<"/">> \o word

\* main.rs:112-116, 209-214: hex SHA-256 of words.join("\n"); modelled by the
\* joined text itself (injective, as the digest is for all practical inputs)
RECURSIVE Join(_)
Join(ws) ==
    IF ws = <<>> THEN <<>>
    ELSE IF Len(ws) = 1 THEN ws[1]
    ELSE ws[1] \o <<"\n">> \o Join(Tail(ws))

Checksum(ws) == Join(ws)

\* main.rs:157-161: threads = configured.max(1).min(words.len())
Threads(configured, ws) == Min(Max(configured, 1), Len(ws))

\* slice::chunks(n): consecutive slices of n elements, the last one shorter
Chunks(ws, n) ==
    [j \in 1 .. ((Len(ws) + n - 1) \div n) |->
        SubSeq(ws, (j - 1) * n + 1, Min(j * n, Len(ws)))]

\* main.rs:175-178
WordChunks(ws, threads) == Chunks(ws, Len(ws) \div threads)

(***************************************************************************)
(* The server.  A request for a URL is answered by a response that passes  *)
(* the filters ("hit"), one that does not ("miss"), a connect failure      *)
(* ("connect") or another transport error ("error").                       *)
(***************************************************************************)
Respond(e, url) ==
    IF url \in e.hits THEN "hit"
    ELSE IF url \in e.conn THEN "connect"
    ELSE IF url \in e.err THEN "error"
    ELSE "miss"

\* one directory per level, one transport error
NestedScenario ==
    [url |-> UrlSlash, words |-> <<WA, WB>>, depth |-> 2, hce |-> FALSE,
     output |-> "none", mode |-> "recursive", perm |-> FALSE,
     first |-> 0 .. MaxThreads, again |-> 0 .. MaxThreads,
     hits |-> {<<"h", "/", "a">>, <<"h", "/", "a", "/", "b">>},
     conn |-> {}, err |-> {<<"h", "/", "b">>}]

Scenarios ==
    { NestedScenario,
      \* two directories at the first level
      [url |-> UrlSlash, words |-> <<WA, WB>>, depth |-> 2, hce |-> FALSE,
       output |-> "none", mode |-> "recursive", perm |-> FALSE,
       first |-> {1}, again |-> 0 .. MaxThreads,
       hits |-> {<<"h", "/", "a">>, <<"h", "/", "b">>},
       conn |-> {}, err |-> {}],
      \* closed port, connect errors recorded
      [url |-> UrlNoSlash, words |-> <<WA, WB>>, depth |-> 1, hce |-> TRUE,
       output |-> "bad", mode |-> "recursive", perm |-> FALSE,
       first |-> 0 .. MaxThreads, again |-> 0 .. MaxThreads,
       hits |-> {},
       conn |-> {<<"h", "/", "a">>, <<"h", "/", "b">>}, err |-> {}],
      \* closed port, connect errors not recorded
      [url |-> UrlNoSlash, words |-> <<WA, WB>>, depth |-> 1, hce |-> FALSE,
       output |-> "json", mode |-> "recursive", perm |-> FALSE,
       first |-> 0 .. MaxThreads, again |-> 0 .. MaxThreads,
       hits |-> {},
       conn |-> {<<"h", "/", "a">>, <<"h", "/", "b">>}, err |-> {}] }

(***************************************************************************)
(* Tree (the Tree type is not among the sources; modelled from the spec,   *)
(* sections 3 and 4.1, and from its uses in the runners).  A node is its   *)
(* TreeData plus `id`, the words on the way from the root to it (the       *)
(* identity of the Arc), and `ord`, its position among its siblings.       *)
(***************************************************************************)
RootId == <<>>

RootData(url) ==
    [url |-> url, depth |-> 0, path |-> <<>>, status_code |-> 0,
     extra |-> "none"]

Node(id, ord, data) == [id |-> id, ord |-> ord, data |-> data]

Children(t, parId) ==
    {n \in t : n.id # RootId /\ Front(n.id) = parId}

\* Tree::insert(data, Some(parent)): a new child is appended to the parent
\* (`ord` is its position among the parent's children)
TreeInsert(t, data, parId) ==
    t \cup {Node(Append(parId, data.path),
                 Cardinality(Children(t, parId)) + 1, data)}

\* Tree::insert(data, None): the new node becomes the root
TreeInsertRoot(t, data) == t \cup {Node(RootId, 1, data)}

NodeOf(t, id) == CHOOSE n \in t : n.id = id

\* the tree in preorder, children in the order of their insertion
RECURSIVE PreorderFrom(_, _), PreorderAll(_, _)
PreorderFrom(t, n) ==
    LET cs == Children(t, n.id)
        ordered == [j \in 1 .. Cardinality(cs) |->
                       CHOOSE c \in cs :
                           Cardinality({x \in cs : x.ord < c.ord}) = j - 1]
    IN  <<n>> \o PreorderAll(t, ordered)
PreorderAll(t, ns) ==
    IF ns = <<>> THEN <<>>
    ELSE PreorderFrom(t, ns[1]) \o PreorderAll(t, Tail(ns))

RECURSIVE Filter(_, _)
Filter(ns, d) ==
    IF ns = <<>> THEN <<>>
    ELSE IF ns[1].data.depth = d THEN <<ns[1]>> \o Filter(Tail(ns), d)
    ELSE Filter(Tail(ns), d)

\* Tree::get_nodes_at_depth(d): the nodes of depth d, in preorder
NodesAtDepth(t, d) ==
    IF t = {} THEN <<>>
    ELSE Filter(PreorderFrom(t, NodeOf(t, RootId)), d)

\* main.rs:140-154
FreshTree(url) == TreeInsertRoot({}, RootData(url))

(***************************************************************************)
(* Startup: main.rs 92-199.                                                *)
(***************************************************************************)
\* main.rs:96-135: the saved tree is used iff --resume, the file reads and
\* the saved root URL is the configured URL
SavedUsable(o, f) ==
    /\ o.resume
    /\ f.exists
    /\ NodeOf(f.tree, RootId).data.url = o.url

\* main.rs:111
StartDepth(o, f) == IF SavedUsable(o, f) THEN f.depth ELSE 0

\* a startup that installs the saved cursors without comparing checksums
StartIndexes_Unchecked(o, f) ==
    IF SavedUsable(o, f) THEN f.indexes ELSE <<>>

\* main.rs:112-124: the saved cursors are installed iff the checksums agree
StartIndexes(o, f) ==
    IF SavedUsable(o, f) /\ f.wordlist_checksum = Checksum(o.words)
    THEN f.indexes ELSE <<>>

\* main.rs:137-155
StartTree(o, f) == IF SavedUsable(o, f) THEN f.tree ELSE FreshTree(o.url)

IdleCoord == [pc |-> "loop", polling |-> FALSE, rxs |-> <<>>, k |-> 1]

IdleSig == [pending |-> 0, sent |-> 0, closed |-> FALSE]

MakeOpts(s, configured, resume, no_save) ==
    [url |-> s.url, words |-> s.words, depth |-> s.depth, hce |-> s.hce,
     output |-> s.output, default_path |-> TRUE,
     threads |-> Threads(configured, s.words), resume |-> resume,
     no_save |-> no_save, mode |-> s.mode, permutations |-> s.perm]

\* the server's answers, and the --threads values the user passes on the
\* first run and on the runs with --resume
MakeEnv(s) ==
    [hits |-> s.hits, conn |-> s.conn, err |-> s.err,
     first |-> s.first, again |-> s.again]

\* what startup installed from the save file (history)
Installed(o, f) ==
    [tree |-> SavedUsable(o, f),
     cursors |-> SavedUsable(o, f) /\ f.wordlist_checksum = Checksum(o.words),
     indexes |-> StartIndexes(o, f),
     depth |-> StartDepth(o, f)]

Init ==
    \E s \in Scenarios, ns \in BOOLEAN :
      \E t \in (0 .. MaxThreads) \cap s.first :
        LET o == MakeOpts(s, t, FALSE, ns) IN
        /\ opts = o
        /\ env = MakeEnv(s)
        /\ tree = StartTree(o, NoFile)
        /\ depth = StartDepth(o, NoFile)
        /\ indexes = StartIndexes(o, NoFile)
        /\ chunks = WordChunks(o.words, o.threads)
        /\ has_saved = SavedUsable(o, NoFile)
        /\ coord = IdleCoord
        /\ workers = <<>>
        /\ reqlog = <<>>
        /\ aborted = FALSE
        /\ abort_handle = FALSE
        /\ sig = IdleSig
        /\ hand = NoSave
        /\ chan = 0
        /\ main = "await_run"
        /\ file = NoFile
        /\ resumed = Installed(o, NoFile)
        /\ runs = 1
        /\ exported = NoExport

Alive == main # "exited"

\* a signal task that unlocks the cursor map as soon as it has cloned it
IndexesLocked_Never == FALSE

\* main.rs:215-220: the guard of current_indexes.lock() is a temporary of the
\* statement `let content = serde_json::to_string(&Save { .. })`: the signal
\* task keeps the cursor map locked from the clone until the tree and the
\* depth are serialized
IndexesLocked == hand.pc \in {"tree", "depth"}

(***************************************************************************)
(* Recursive::run, recursive.rs 30-111.  The run task is wrapped in        *)
(* futures::abortable (main.rs:180): it stops at the next poll after       *)
(* abort(), never in the middle of one.  `polling` says a poll is under    *)
(* way; the task is parked (not polling) while the channel it waits on is  *)
(* empty.                                                                  *)
(***************************************************************************)
Wid(parId, i) == <<parId, i>>

ParentUrl(t, w) == NodeOf(t, w[1]).data.url

NewWorker(cur) ==
    [pc |-> "check", index |-> 0, resp |-> "none", first |-> cur, nwords |-> 0]

\* a round that spawns workers for the first node of the frontier only
SpawnOrder_FirstNode(ns, n) ==
    IF ns = <<>> THEN <<>> ELSE [i \in 1 .. n |-> Wid(ns[1].id, i)]

\* recursive.rs:33-95: the receivers, in the order the workers are spawned
\* (node by node, chunk by chunk)
RECURSIVE SpawnOrder(_, _)
SpawnOrder(ns, n) ==
    IF ns = <<>> THEN <<>>
    ELSE [i \in 1 .. n |-> Wid(ns[1].id, i)] \o SpawnOrder(Tail(ns), n)

\* recursive.rs:39-42: entry(url).or_insert_with(|| vec![0; chunks.len()])
OrInsert(idx, urls, n) ==
    [u \in (DOMAIN idx) \cup urls |->
        IF u \in DOMAIN idx THEN idx[u] ELSE [j \in 1 .. n |-> 0]]

\* the cursor a new worker starts from (0 when the vector has no entry i)
CursorAt(idx, u, i) == IF i \in DOMAIN idx[u] THEN idx[u][i] ELSE 0

\* Abortable::poll: a poll starts; it ends the task when abort() was called
CoordPoll ==
    /\ Alive
    /\ coord.pc \in {"loop", "join"}
    /\ ~coord.polling
    /\ IF abort_handle
       THEN coord' = [coord EXCEPT !.pc = "aborted"]
       ELSE coord' = [coord EXCEPT !.polling = TRUE]
    /\ UNCHANGED <<opts, env, tree, depth, indexes, chunks, has_saved, workers,
                   reqlog, aborted, abort_handle, sig, hand, chan, main, file,
                   resumed, runs,
                   exported>>

\* a loop that goes one round too far
DepthReached_Late(d, o) == ~(d <= o.depth)

\* recursive.rs:31: the loop condition
DepthReached(d, o) == ~(d < o.depth)

\* recursive.rs:31-96: one round is set up, a worker spawned per chunk
CoordRound ==
    /\ Alive
    /\ coord.pc = "loop"
    /\ coord.polling
    /\ opts.mode = "recursive"
    /\ IF DepthReached(depth, opts)
       THEN /\ coord' = [coord EXCEPT !.pc = "ok"]
            /\ UNCHANGED <<indexes, workers, reqlog>>
       ELSE LET previous_nodes == NodesAtDepth(tree, depth)
                urls == {previous_nodes[j].data.url :
                             j \in DOMAIN previous_nodes}
                idx  == OrInsert(indexes, urls, Len(chunks))
                rxs  == SpawnOrder(previous_nodes, Len(chunks))
                wids == {rxs[j] : j \in DOMAIN rxs}
            IN  /\ previous_nodes # <<>> => ~IndexesLocked
                /\ indexes' = idx
                /\ workers' =
                     [w \in (DOMAIN workers) \cup wids |->
                        IF w \in wids
                        THEN NewWorker(CursorAt(idx, ParentUrl(tree, w), w[2]))
                        ELSE workers[w]]
                /\ reqlog' = [w \in (DOMAIN reqlog) \cup wids |->
                                IF w \in wids THEN <<>> ELSE reqlog[w]]
                /\ coord' = [coord EXCEPT !.pc = "join",
                                          !.rxs = rxs, !.k = 1]
    /\ UNCHANGED <<opts, env, tree, depth, chunks, has_saved, aborted,
                   abort_handle, sig, hand, chan, main, file, resumed, runs,
                   exported>>

Finished(w) == w.pc \in {"sent", "panic"}

\* recursive.rs:98-105 (classic.rs:273-281): rx.recv().await on the next
\* worker's channel
CoordRecv ==
    /\ Alive
    /\ coord.pc = "join"
    /\ coord.polling
    /\ coord.k <= Len(coord.rxs)
    /\ LET w == coord.rxs[coord.k] IN
         \/ /\ workers[w].pc = "sent"               \* Some(Ok(()))
            /\ coord' = [coord EXCEPT !.k = @ + 1]
            /\ workers' = [x \in (DOMAIN workers) \ {w} |-> workers[x]]
         \/ /\ workers[w].pc = "panic"              \* None: the sender is gone
            /\ coord' = [coord EXCEPT !.pc = "err"]
            /\ UNCHANGED workers
         \/ /\ ~Finished(workers[w])                \* Pending: the task parks
            /\ coord' = [coord EXCEPT !.polling = FALSE]
            /\ UNCHANGED workers
    /\ UNCHANGED <<opts, env, tree, depth, indexes, chunks, has_saved, reqlog,
                   aborted, abort_handle, sig, hand, chan, main, file,
                   resumed, runs,
                   exported>>

\* every receiver of the round has been read
\* a coordinator that waits for the first worker of the round only
JoinedFirst(c) == c.k > 1

JoinedAll(c) == c.k > Len(c.rxs)

\* recursive.rs:107-108: go to the next depth
CoordNextDepth ==
    /\ Alive
    /\ coord.pc = "join"
    /\ coord.polling
    /\ opts.mode = "recursive"
    /\ JoinedAll(coord)
    /\ depth' = depth + 1
    /\ coord' = [coord EXCEPT !.pc = "loop", !.rxs = <<>>, !.k = 1]
    /\ UNCHANGED <<opts, env, tree, indexes, chunks, has_saved, workers,
                   reqlog, aborted, abort_handle, sig, hand, chan, main, file,
                   resumed, runs,
                   exported>>

(***************************************************************************)
(* Recursive::process_chunk, recursive.rs 133-296.  The request, the       *)
(* throttle sleep and the body read (the suspension points) lie between    *)
(* WSend and WResponse; the duplicate check, the insertion and the cursor  *)
(* increment each take their lock on their own.                            *)
(***************************************************************************)
\* a worker that records every connect failure, whatever the option
Recorded_Unconditional(resp, o) == resp \in {"hit", "connect"}

\* recursive.rs:198, 250: is the answer recorded in the tree?
Recorded(resp, o) ==
    \/ resp = "hit"
    \/ resp = "connect" /\ o.hce

\* a worker without the "already in tree" check
AlreadyInTree_Never(t, parId, word) == FALSE

\* recursive.rs:223-227, 258-262: "already in tree"
AlreadyInTree(t, parId, word) ==
    \E c \in Children(t, parId) : c.data.path = word

\* a child given its parent's depth
ChildData_ParentDepth(data, url, word, resp) ==
    [url |-> url, depth |-> data.depth, path |-> word,
     status_code |-> IF resp = "connect" THEN 0 ELSE 200,
     extra |-> IF resp = "connect" THEN "empty" ELSE "additions"]

\* recursive.rs:230-236, 265-271
ChildData(data, url, word, resp) ==
    [url |-> url, depth |-> data.depth + 1, path |-> word,
     status_code |-> IF resp = "connect" THEN 0 ELSE 200,
     extra |-> IF resp = "connect" THEN "empty" ELSE "additions"]

\* a cursor that runs ahead: it counts the next word too
Advance_Ahead(idx, u, i) == [idx EXCEPT ![u][i] = @ + 2]

\* recursive.rs:288-291: indexes[url][i] += 1
Advance(idx, u, i) == [idx EXCEPT ![u][i] = @ + 1]

SetWorker(w, r) == [workers EXCEPT ![w] = r]

\* recursive.rs:144-168: the loop condition and the index read (the worker
\* is the only writer of its cursor, so both locks see one value), then the
\* word is taken, the URL built and the request sent
WSendAt(w, at) ==
    /\ Alive
    /\ workers[w].pc = at
    /\ ~IndexesLocked
    /\ LET u == ParentUrl(tree, w)
           i == w[2]
       IN  IF i \notin DOMAIN indexes[u]
           THEN /\ workers' = SetWorker(w, [workers[w] EXCEPT !.pc = "panic"])
                /\ UNCHANGED reqlog
           ELSE IF indexes[u][i] < Len(chunks[i])
           THEN /\ workers' = SetWorker(w,
                      [workers[w] EXCEPT !.pc = "await",
                                         !.index = indexes[u][i]])
                /\ reqlog' = [reqlog EXCEPT ![w] = Append(@, indexes[u][i])]
           ELSE /\ workers' = SetWorker(w, [workers[w] EXCEPT !.pc = "sent"])
                /\ UNCHANGED reqlog
    /\ UNCHANGED <<opts, env, tree, depth, indexes, chunks, has_saved, coord,
                   aborted, abort_handle, sig, hand, chan, main, file,
                   resumed, runs,
                   exported>>

WSend(w) == WSendAt(w, "check")

WWord(w) == chunks[w[2]][workers[w].index + 1]

WUrl(w) == ChildUrl(ParentUrl(tree, w), WWord(w))

\* a worker that goes on to the next iteration after a transport error that
\* is not recorded, without the increment
AfterResponse_ErrorContinue(resp, o) ==
    IF Recorded(resp, o) THEN "dup"
    ELSE IF resp \in {"error", "connect"} THEN "check" ELSE "incr"

\* recursive.rs:179-286: what the worker does with an answer before the
\* increment: a recorded answer goes through the duplicate check
AfterResponse(resp, o) == IF Recorded(resp, o) THEN "dup" ELSE "incr"

\* recursive.rs:168-221, 249-257, 283: the task resumes with the answer
WResponse(w) ==
    /\ Alive
    /\ workers[w].pc = "await"
    /\ LET resp == Respond(env, WUrl(w)) IN
         workers' = SetWorker(w,
            [workers[w] EXCEPT
                !.resp = resp,
                !.nwords = @ + 1,
                !.pc = AfterResponse(resp, opts)])
    /\ UNCHANGED <<opts, env, tree, depth, indexes, chunks, has_saved, coord,
                   reqlog, aborted, abort_handle, sig, hand, chan, main, file,
                   resumed, runs,
                   exported>>

\* recursive.rs:222-228, 258-263: the duplicate check (a lock of the parent)
WDupCheckAt(w, at) ==
    /\ Alive
    /\ workers[w].pc = at
    /\ workers' = SetWorker(w,
          [workers[w] EXCEPT
              !.pc = IF AlreadyInTree(tree, w[1], WWord(w))
                     THEN "incr" ELSE "insert"])
    /\ UNCHANGED <<opts, env, tree, depth, indexes, chunks, has_saved, coord,
                   reqlog, aborted, abort_handle, sig, hand, chan, main, file,
                   resumed, runs,
                   exported>>

WDupCheck(w) == WDupCheckAt(w, "dup")

\* recursive.rs:229-238, 264-273: tree.lock().insert(..)
WInsertAt(w, at) ==
    /\ Alive
    /\ workers[w].pc = at
    /\ tree' = TreeInsert(tree,
                  ChildData(NodeOf(tree, w[1]).data, WUrl(w), WWord(w),
                            workers[w].resp),
                  w[1])
    /\ workers' = SetWorker(w, [workers[w] EXCEPT !.pc = "incr"])
    /\ UNCHANGED <<opts, env, depth, indexes, chunks, has_saved, coord,
                   reqlog, aborted, abort_handle, sig, hand, chan, main, file,
                   resumed, runs,
                   exported>>

WInsert(w) == WInsertAt(w, "insert")

\* recursive.rs:287-292: the cursor is advanced
WAdvanceAt(w, at) ==
    /\ Alive
    /\ workers[w].pc = at
    /\ ~IndexesLocked
    /\ indexes' = Advance(indexes, ParentUrl(tree, w), w[2])
    /\ workers' = SetWorker(w, [workers[w] EXCEPT !.pc = "check",
                                                  !.resp = "none"])
    /\ UNCHANGED <<opts, env, tree, depth, chunks, has_saved, coord,
                   reqlog, aborted, abort_handle, sig, hand, chan, main, file,
                   resumed, runs,
                   exported>>

WAdvance(w) == WAdvanceAt(w, "incr")

(***************************************************************************)
(* Classic runner, classic.rs.  The URL template is a sequence of          *)
(* characters in which the fuzz key is the single element FuzzKey.         *)
(***************************************************************************)
FuzzKey == "FUZZ"

\* str::replace(pat, rep): every non-overlapping match, left to right
RECURSIVE ReplaceAll(_, _, _)
ReplaceAll(s, pat, rep) ==
    IF Len(s) < Len(pat) \/ pat = <<>> THEN s
    ELSE IF SubSeq(s, 1, Len(pat)) = pat
         THEN rep \o ReplaceAll(SubSeq(s, Len(pat) + 1, Len(s)), pat, rep)
         ELSE <<s[1]>> \o ReplaceAll(Tail(s), pat, rep)

\* str::matches(pat).count(): the non-overlapping matches, left to right
RECURSIVE CountMatches(_, _)
CountMatches(s, pat) ==
    IF Len(s) < Len(pat) \/ pat = <<>> THEN 0
    ELSE IF SubSeq(s, 1, Len(pat)) = pat
         THEN 1 + CountMatches(SubSeq(s, Len(pat) + 1, Len(s)), pat)
         ELSE CountMatches(Tail(s), pat)

\* Itertools::permutations(k) over n items: the sequences of k distinct
\* positions, in lexicographic order (PermsFrom: those that extend `prefix`;
\* PermsNext: those whose next position is i or more)
RECURSIVE PermsFrom(_, _, _), PermsNext(_, _, _, _)
PermsFrom(n, k, prefix) ==
    IF Len(prefix) = k THEN <<prefix>> ELSE PermsNext(n, k, prefix, 1)
PermsNext(n, k, prefix, i) ==
    IF i > n THEN <<>>
    ELSE (IF \E j \in DOMAIN prefix : prefix[j] = i THEN <<>>
          ELSE PermsFrom(n, k, Append(prefix, i)))
         \o PermsNext(n, k, prefix, i + 1)

KPermutations(n, k) == PermsFrom(n, k, <<>>)

\* classic.rs:64-77: for word in c { url = url.replace(key, word) }
RECURSIVE ReplaceEach(_, _, _)
ReplaceEach(url, ws, c) ==
    IF c = <<>> THEN url
    ELSE ReplaceEach(ReplaceAll(url, <<FuzzKey>>, ws[c[1]]), ws, Tail(c))

\* classic.rs:49-99: with permutations, one URL per k-permutation of the
\* words, k the number of keys in the template; without, one URL per word,
\* every occurrence of the key replaced by it
GenerateUrls(o) ==
    IF o.permutations
    THEN LET cs == KPermutations(Len(o.words),
                                CountMatches(o.url, <<FuzzKey>>))
         IN  [j \in 1 .. Len(cs) |-> ReplaceEach(o.url, o.words, cs[j])]
    ELSE [j \in 1 .. Len(o.words) |->
             ReplaceAll(o.url, <<FuzzKey>>, o.words[j])]

\* the thread count the classic runner is constructed with: the clamped T of
\* startup
ClassicThreads(o) == o.threads

\* a split that keeps one chunk per thread and drops what is left over
UrlChunks_OnePerThread(urls, threads) ==
    SubSeq(Chunks(urls, Len(urls) \div threads), 1, threads)

\* classic.rs:254: urls.chunks(urls.len() / threads)
UrlChunks(urls, threads) == Chunks(urls, Len(urls) \div threads)

\* Url::path(): what follows the host, "/" when nothing does
UrlPath(u) == IF Len(u) = 1 THEN <<"/">> ELSE Tail(u)

\* classic.rs:183-186, 218-221: the URL's path with the root's path removed
ClassicPath(url, root_url) == ReplaceAll(UrlPath(url), UrlPath(root_url), <<>>)

\* classic discoveries given depth 1
ClassicData_DepthOne(url, root_url, resp) ==
    [url |-> url, depth |-> 1, path |-> ClassicPath(url, root_url),
     status_code |-> IF resp = "connect" THEN 0 ELSE 200,
     extra |-> IF resp = "connect" THEN "empty" ELSE "additions"]

\* classic.rs:180-189, 215-224
ClassicData(url, root_url, resp) ==
    [url |-> url, depth |-> 0, path |-> ClassicPath(url, root_url),
     status_code |-> IF resp = "connect" THEN 0 ELSE 200,
     extra |-> IF resp = "connect" THEN "empty" ELSE "additions"]

\* classic.rs:170-191, 204-226: tree.lock().clone(), then insert(data,
\* tree.root.clone()) on the clone.  Tree holds its root by handle
\* (Option<Arc<Mutex<TreeNode>>>, see main.rs:100-101, 254): the clone holds
\* the same root node, and the child is appended to that node.
ClassicInsert(t, data) == TreeInsert(t, data, RootId)

NewClassicWorker == [pc |-> "c_next", index |-> 0, resp |-> "none"]

\* classic.rs:240-271: URLs generated and split, a worker spawned per chunk
ClassicStart ==
    /\ Alive
    /\ coord.pc = "loop"
    /\ coord.polling
    /\ opts.mode = "classic"
    /\ LET urls == GenerateUrls(opts) IN
         IF Len(urls) \div ClassicThreads(opts) = 0
         THEN /\ coord' = [coord EXCEPT !.pc = "panic"]  \* chunks(0) panics
              /\ UNCHANGED <<chunks, workers, reqlog>>
         ELSE LET cs   == UrlChunks(urls, ClassicThreads(opts))
                  wids == {Wid(RootId, i) : i \in 1 .. Len(cs)}
              IN  /\ chunks' = cs
                  /\ workers' = [w \in wids |-> NewClassicWorker]
                  /\ reqlog' = [w \in wids |-> <<>>]
                  /\ coord' = [coord EXCEPT !.pc = "join",
                                            !.rxs = [i \in 1 .. Len(cs) |->
                                                       Wid(RootId, i)],
                                            !.k = 1]
    /\ UNCHANGED <<opts, env, tree, depth, indexes, has_saved, aborted,
                   abort_handle, sig, hand, chan, main, file, resumed, runs,
                   exported>>

\* classic.rs:283-285: every worker answered Ok
ClassicDone ==
    /\ Alive
    /\ coord.pc = "join"
    /\ coord.polling
    /\ opts.mode = "classic"
    /\ JoinedAll(coord)
    /\ coord' = [coord EXCEPT !.pc = "ok", !.rxs = <<>>, !.k = 1]
    /\ UNCHANGED <<opts, env, tree, depth, indexes, chunks, has_saved, workers,
                   reqlog, aborted, abort_handle, sig, hand, chan, main, file,
                   resumed, runs,
                   exported>>

\* classic.rs:109-114: the next URL of the chunk is requested
CSend(w) ==
    /\ Alive
    /\ workers[w].pc = "c_next"
    /\ IF workers[w].index < Len(chunks[w[2]])
       THEN /\ workers' = SetWorker(w, [workers[w] EXCEPT !.pc = "c_await"])
            /\ reqlog' = [reqlog EXCEPT ![w] = Append(@, workers[w].index)]
       ELSE /\ workers' = SetWorker(w, [workers[w] EXCEPT !.pc = "sent"])
            /\ UNCHANGED reqlog
    /\ UNCHANGED <<opts, env, tree, depth, indexes, chunks, has_saved, coord,
                   aborted, abort_handle, sig, hand, chan, main, file,
                   resumed, runs,
                   exported>>

CUrl(w) == chunks[w[2]][workers[w].index + 1]

\* classic.rs:114-167, 194-202, 227-232: the task resumes with the answer
CResponse(w) ==
    /\ Alive
    /\ workers[w].pc = "c_await"
    /\ LET resp == Respond(env, CUrl(w)) IN
         workers' = SetWorker(w,
            IF Recorded(resp, opts)
            THEN [workers[w] EXCEPT !.resp = resp, !.pc = "c_insert"]
            ELSE [workers[w] EXCEPT !.index = @ + 1, !.pc = "c_next"])
    /\ UNCHANGED <<opts, env, tree, depth, indexes, chunks, has_saved, coord,
                   reqlog, aborted, abort_handle, sig, hand, chan, main, file,
                   resumed, runs,
                   exported>>

\* classic.rs:169-191, 203-226, 232
CInsert(w) ==
    /\ Alive
    /\ workers[w].pc = "c_insert"
    /\ tree' = ClassicInsert(tree,
                  ClassicData(CUrl(w), NodeOf(tree, RootId).data.url,
                              workers[w].resp))
    /\ workers' = SetWorker(w, [workers[w] EXCEPT !.index = @ + 1,
                                                  !.resp = "none",
                                                  !.pc = "c_next"])
    /\ UNCHANGED <<opts, env, depth, indexes, chunks, has_saved, coord,
                   reqlog, aborted, abort_handle, sig, hand, chan, main, file,
                   resumed, runs,
                   exported>>

(***************************************************************************)
(* The signal task, main.rs 201-241.  From the store of the abort flag to  *)
(* the send there is no await: the steps below are one poll of the task,   *)
(* split where it takes a lock that the run takes too.                     *)
(***************************************************************************)
\* a SIGINT is delivered to the process
SigintUpTo(n) ==
    /\ Alive
    /\ ~sig.closed
    /\ sig.sent < n
    /\ sig' = [sig EXCEPT !.pending = @ + 1, !.sent = @ + 1]
    /\ UNCHANGED <<opts, env, tree, depth, indexes, chunks, has_saved, coord,
                   workers, reqlog, aborted, abort_handle, hand, chan, main,
                   file, resumed, runs,
                   exported>>

Sigint == SigintUpTo(MaxSignals)

\* main.rs:208: what follows the abort
AfterAbort(o) == IF o.no_save THEN "send" ELSE "snap"

\* main.rs:202-207: signals.next() yields SIGINT; flag stored, run aborted
HSignal ==
    /\ Alive
    /\ hand.pc = "idle"
    /\ ~sig.closed
    /\ sig.pending > 0
    /\ sig' = [sig EXCEPT !.pending = @ - 1]
    /\ aborted' = TRUE
    /\ abort_handle' = TRUE
    /\ hand' = [pc |-> AfterAbort(opts)]
    /\ UNCHANGED <<opts, env, tree, depth, indexes, chunks, has_saved, coord,
                   workers, reqlog, chan, main, file, resumed, runs,
                   exported>>

\* main.rs:219: indexes: current_indexes.lock().clone()
HSnapIndexes ==
    /\ Alive
    /\ hand.pc = "snap"
    /\ hand' = [pc |-> "tree", indexes |-> indexes]
    /\ UNCHANGED <<opts, env, tree, depth, indexes, chunks, has_saved, coord,
                   workers, reqlog, aborted, abort_handle, sig, chan, main,
                   file, resumed, runs,
                   exported>>

\* main.rs:215-216: to_string serializes the field `tree` first (under the
\* tree lock)
HSerializeTreeAt(at) ==
    /\ Alive
    /\ hand.pc = at
    /\ hand' = [pc |-> "depth", indexes |-> hand.indexes, tree |-> tree]
    /\ UNCHANGED <<opts, env, tree, depth, indexes, chunks, has_saved, coord,
                   workers, reqlog, aborted, abort_handle, sig, chan, main,
                   file, resumed, runs,
                   exported>>

HSerializeTree == HSerializeTreeAt("tree")

\* the Save record as written
SaveRecord(h, d, ws) ==
    [exists |-> TRUE, tree |-> h.tree, depth |-> d,
     wordlist_checksum |-> Checksum(ws), indexes |-> h.indexes]

\* main.rs:217-231: then the field `depth` (under the depth lock); the
\* document is written to a newly created file and flushed
HWrite ==
    /\ Alive
    /\ hand.pc = "depth"
    /\ file' = SaveRecord(hand, depth, opts.words)
    /\ hand' = [pc |-> "send"]
    /\ UNCHANGED <<opts, env, tree, depth, indexes, chunks, has_saved, coord,
                   workers, reqlog, aborted, abort_handle, sig, chan, main,
                   resumed, runs,
                   exported>>

\* main.rs:236: tx.send(()).await on the channel of capacity 1
HSend ==
    /\ Alive
    /\ hand.pc = "send"
    /\ chan < 1
    /\ chan' = chan + 1
    /\ hand' = [pc |-> "idle"]
    /\ UNCHANGED <<opts, env, tree, depth, indexes, chunks, has_saved, coord,
                   workers, reqlog, aborted, abort_handle, sig, main, file,
                   resumed, runs,
                   exported>>

\* main.rs:202: the stream is closed, signals.next() yields None
HEnd ==
    /\ Alive
    /\ hand.pc = "idle"
    /\ sig.closed
    /\ hand' = [pc |-> "done"]
    /\ UNCHANGED <<opts, env, tree, depth, indexes, chunks, has_saved, coord,
                   workers, reqlog, aborted, abort_handle, sig, chan, main,
                   file, resumed, runs,
                   exported>>

(***************************************************************************)
(* The main task, main.rs 242-343.                                         *)
(***************************************************************************)
RunEnded == coord.pc \in {"ok", "err", "aborted", "panic"}

\* main.rs:243: `if let Ok(_) = res` -- res is the Abortable's result, Ok
\* whenever the run was not aborted
ResIsOk(c) == c.pc # "aborted"

\* main.rs:242-243: main_thread.await
MAwaitRun ==
    /\ Alive
    /\ main = "await_run"
    /\ RunEnded
    /\ main' = IF coord.pc = "panic" THEN "return"    \* JoinError, `?`
               ELSE IF ResIsOk(coord) THEN "post" ELSE "check"
    /\ UNCHANGED <<opts, env, tree, depth, indexes, chunks, has_saved, coord,
                   workers, reqlog, aborted, abort_handle, sig, hand, chan,
                   file, resumed, runs,
                   exported>>

\* main.rs:258-261: remove the save file if it is the default one
RemoveSave(f, o, hs) == IF hs /\ o.default_path THEN NoFile ELSE f

\* the output types written node by node
FlatTypes == {"csv", "md", "txt"}

\* main.rs:275, 285, 314: for depth in 0..*depth.lock()
ExportDepths(d) == 0 .. d - 1

\* main.rs:274-277, 284-287, 313-316: the nodes of every depth of the loop,
\* depth by depth
RECURSIVE NodesUpTo(_, _, _)
NodesUpTo(t, k, ds) ==
    IF k \notin ds THEN <<>>
    ELSE NodesAtDepth(t, k) \o NodesUpTo(t, k + 1, ds)

\* main.rs:279, 289-308, 318-320: what is written for a node: the csv row of
\* its data, the markdown line (indentation, path, status, URL), the URL
Row(type, n) ==
    CASE type = "csv" -> n.data
      [] type = "md"  -> <<n.data.depth, n.data.path, n.data.status_code,
                           n.data.url>>
      [] type = "txt" -> n.data.url

\* main.rs:262-333: the output file.  File::create truncates it whatever the
\* type; json holds the whole tree (the serialized root)
Export(e, o, t, d) ==
    IF o.output = "none" THEN e
    ELSE IF o.output \in FlatTypes
    THEN LET ns == NodesUpTo(t, 0, ExportDepths(d)) IN
         [exists |-> TRUE, type |-> o.output,
          rows |-> [j \in DOMAIN ns |-> Row(o.output, ns[j])]]
    ELSE IF o.output = "json"
    THEN [exists |-> TRUE, type |-> "json",
          rows |-> PreorderFrom(t, NodeOf(t, RootId))]
    ELSE [exists |-> TRUE, type |-> o.output, rows |-> <<>>]

\* main.rs:244-335: report, removal of the save file, export.  An output
\* file of unknown type ends the process at once (std::process::exit(1)).
MPost ==
    /\ Alive
    /\ main = "post"
    /\ file' = RemoveSave(file, opts, has_saved)
    /\ exported' = Export(exported, opts, tree, depth)
    /\ main' = IF opts.output = "bad" THEN "exited" ELSE "check"
    /\ UNCHANGED <<opts, env, tree, depth, indexes, chunks, has_saved, coord,
                   workers, reqlog, aborted, abort_handle, sig, hand, chan,
                   resumed, runs>>

\* main.rs:336-338: the save-done message is awaited iff the flag is set
MCheckAborted ==
    /\ Alive
    /\ main = "check"
    /\ main' = IF aborted THEN "recv" ELSE "close"
    /\ UNCHANGED <<opts, env, tree, depth, indexes, chunks, has_saved, coord,
                   workers, reqlog, aborted, abort_handle, sig, hand, chan,
                   file, resumed, runs,
                   exported>>

\* main.rs:337: rx.recv().await
MRecv ==
    /\ Alive
    /\ main = "recv"
    /\ chan > 0
    /\ chan' = chan - 1
    /\ main' = "close"
    /\ UNCHANGED <<opts, env, tree, depth, indexes, chunks, has_saved, coord,
                   workers, reqlog, aborted, abort_handle, sig, hand, file,
                   resumed, runs,
                   exported>>

\* main.rs:340: ctrlc_handle.close()
MClose ==
    /\ Alive
    /\ main = "close"
    /\ sig' = [sig EXCEPT !.closed = TRUE]
    /\ main' = "join"
    /\ UNCHANGED <<opts, env, tree, depth, indexes, chunks, has_saved, coord,
                   workers, reqlog, aborted, abort_handle, hand, chan, file,
                   resumed, runs,
                   exported>>

\* main.rs:341-342: signals_task.await, then _main returns and the runtime is
\* dropped: every task still alive ends with the process
MJoin ==
    /\ Alive
    /\ main = "join"
    /\ hand.pc = "done"
    /\ main' = "exited"
    /\ UNCHANGED <<opts, env, tree, depth, indexes, chunks, has_saved, coord,
                   workers, reqlog, aborted, abort_handle, sig, hand, chan,
                   file, resumed, runs,
                   exported>>

(***************************************************************************)
(* A rerun with --resume: a new process, started from the save file the    *)
(* last one left, with the same target, the final wordlist ws, a maximum   *)
(* depth of ds and any thread count.                                       *)
(***************************************************************************)
RestartWith(ws, ds) ==
    /\ main = "exited"
    /\ runs < MaxRuns
    /\ file.exists
    /\ \E t \in (0 .. MaxThreads) \cap env.again, d \in ds :
         LET o == [opts EXCEPT !.words = ws,
                               !.depth = d,
                               !.threads = Threads(t, ws),
                               !.resume = TRUE]
         IN  /\ opts' = o
             /\ tree' = StartTree(o, file)
             /\ depth' = StartDepth(o, file)
             /\ indexes' = StartIndexes(o, file)
             /\ chunks' = WordChunks(o.words, o.threads)
             /\ has_saved' = SavedUsable(o, file)
             /\ resumed' = Installed(o, file)
    /\ coord' = IdleCoord
    /\ workers' = <<>>
    /\ reqlog' = <<>>
    /\ aborted' = FALSE
    /\ abort_handle' = FALSE
    /\ sig' = [IdleSig EXCEPT !.sent = sig.sent]
    /\ hand' = NoSave
    /\ chan' = 0
    /\ main' = "await_run"
    /\ runs' = runs + 1
    /\ UNCHANGED <<env, file,
                   exported>>

\* the rerun reads the same wordlist and has the same maximum depth
Restart == RestartWith(opts.words, {opts.depth})

\* main.rs:242: the run task panicked, `?` returns the JoinError; the runtime
\* is dropped, which waits for the poll of the signal task under way
MReturn ==
    /\ main = "return"
    /\ hand.pc \notin {"snap", "tree", "depth"}
    /\ main' = "exited"
    /\ UNCHANGED <<opts, env, tree, depth, indexes, chunks, has_saved, coord,
                   workers, reqlog, aborted, abort_handle, sig, hand, chan,
                   file, resumed, runs,
                   exported>>

Worker ==
    \E w \in DOMAIN workers :
        \/ WSend(w)
        \/ WResponse(w)
        \/ WDupCheck(w)
        \/ WInsert(w)
        \/ WAdvance(w)

Next ==
    \/ CoordPoll
    \/ CoordRound
    \/ CoordRecv
    \/ CoordNextDepth
    \/ Worker
    \/ Sigint
    \/ HSignal
    \/ HSnapIndexes
    \/ HSerializeTree
    \/ HWrite
    \/ HSend
    \/ HEnd
    \/ MAwaitRun
    \/ MPost
    \/ MCheckAborted
    \/ MRecv
    \/ MClose
    \/ MJoin
    \/ Restart

Spec == Init /\ [][Next]_vars

(***************************************************************************)
(* A classic run (one process).                                            *)
(***************************************************************************)
Template == <<"h", "/", FuzzKey>>

ClassicScenarios ==
    { \* no filters: every word is a discovery
      [url |-> Template, words |-> <<WA, WB, WC>>, depth |-> 1, hce |-> FALSE,
       output |-> "none", mode |-> "classic", perm |-> FALSE,
       first |-> 0 .. MaxThreads, again |-> {},
       hits |-> {<<"h", "/", "a">>, <<"h", "/", "b">>, <<"h", "/", "c">>},
       conn |-> {}, err |-> {}],
      \* one discovery, one recorded connect error
      [url |-> Template, words |-> <<WA, WB, WC>>, depth |-> 1, hce |-> TRUE,
       output |-> "json", mode |-> "classic", perm |-> FALSE,
       first |-> 0 .. MaxThreads, again |-> {},
       hits |-> {<<"h", "/", "a">>},
       conn |-> {<<"h", "/", "b">>}, err |-> {}] }

InitClassic ==
    \E s \in ClassicScenarios :
      \E t \in (0 .. MaxThreads) \cap s.first :
        LET o == MakeOpts(s, t, FALSE, FALSE) IN
        /\ opts = o
        /\ env = MakeEnv(s)
        /\ tree = StartTree(o, NoFile)
        /\ depth = StartDepth(o, NoFile)
        /\ indexes = StartIndexes(o, NoFile)
        /\ chunks = WordChunks(o.words, o.threads)
        /\ has_saved = SavedUsable(o, NoFile)
        /\ coord = IdleCoord
        /\ workers = <<>>
        /\ reqlog = <<>>
        /\ aborted = FALSE
        /\ abort_handle = FALSE
        /\ sig = IdleSig
        /\ hand = NoSave
        /\ chan = 0
        /\ main = "await_run"
        /\ file = NoFile
        /\ resumed = Installed(o, NoFile)
        /\ runs = 1
        /\ exported = NoExport

ClassicWorker ==
    \E w \in DOMAIN workers :
        \/ CSend(w)
        \/ CResponse(w)
        \/ CInsert(w)

NextClassic ==
    \/ CoordPoll
    \/ ClassicStart
    \/ CoordRecv
    \/ ClassicDone
    \/ ClassicWorker
    \/ Sigint
    \/ HSignal
    \/ HSnapIndexes
    \/ HSerializeTree
    \/ HWrite
    \/ HSend
    \/ HEnd
    \/ MAwaitRun
    \/ MPost
    \/ MCheckAborted
    \/ MRecv
    \/ MClose
    \/ MJoin

SpecClassic == InitClassic /\ [][NextClassic]_vars

(***************************************************************************)
(* Classic runs over templates with no, one, two and three fuzz keys, with *)
(* and without --permutations.  A run whose task panics makes main return  *)
(* the JoinError.                                                          *)
(***************************************************************************)
NoKey     == <<"h", "/", "x">>
TwoKeys   == <<"h", "/", FuzzKey, "/", FuzzKey>>
ThreeKeys == <<"h", "/", FuzzKey, "/", FuzzKey, "/", FuzzKey>>

PermScenarios ==
    { [url |-> u, words |-> ws, depth |-> 1, hce |-> FALSE,
       output |-> "none", mode |-> "classic", perm |-> p,
       first |-> 0 .. MaxThreads, again |-> {},
       hits |-> {<<"h", "/", "a">>, <<"h", "/", "a", "/", "b">>},
       conn |-> {}, err |-> {}] :
         u \in {NoKey, Template, TwoKeys, ThreeKeys},
         ws \in {<<WA, WB>>, <<WA, WB, WC>>},
         p \in BOOLEAN }

InitPerm ==
    \E s \in PermScenarios :
      \E t \in (0 .. MaxThreads) \cap s.first :
        LET o == MakeOpts(s, t, FALSE, FALSE) IN
        /\ opts = o
        /\ env = MakeEnv(s)
        /\ tree = StartTree(o, NoFile)
        /\ depth = StartDepth(o, NoFile)
        /\ indexes = StartIndexes(o, NoFile)
        /\ chunks = WordChunks(o.words, o.threads)
        /\ has_saved = SavedUsable(o, NoFile)
        /\ coord = IdleCoord
        /\ workers = <<>>
        /\ reqlog = <<>>
        /\ aborted = FALSE
        /\ abort_handle = FALSE
        /\ sig = IdleSig
        /\ hand = NoSave
        /\ chan = 0
        /\ main = "await_run"
        /\ file = NoFile
        /\ resumed = Installed(o, NoFile)
        /\ runs = 1
        /\ exported = NoExport

NextPerm ==
    \/ CoordPoll
    \/ ClassicStart
    \/ CoordRecv
    \/ ClassicDone
    \/ ClassicWorker
    \/ Sigint
    \/ HSignal
    \/ HSnapIndexes
    \/ HSerializeTree
    \/ HWrite
    \/ HSend
    \/ HEnd
    \/ MAwaitRun
    \/ MReturn
    \/ MPost
    \/ MCheckAborted
    \/ MRecv
    \/ MClose
    \/ MJoin

SpecPerm == InitPerm /\ [][NextPerm]_vars

(***************************************************************************)
(* Runs of either mode against a server that answers some words with a     *)
(* transport error: a connect failure or another one.                      *)
(***************************************************************************)
ErrorScenarios ==
    { [url |-> g[1], words |-> <<WA, WB>>, depth |-> 1, hce |-> h,
       output |-> "none", mode |-> g[2], perm |-> FALSE,
       first |-> 0 .. MaxThreads, again |-> {},
       hits |-> {},
       conn |-> {<<"h", "/", "a">>}, err |-> {<<"h", "/", "b">>}] :
         h \in BOOLEAN,
         g \in {<<UrlSlash, "recursive">>, <<Template, "classic">>} }
    \cup
    \* closed port
    { [url |-> g[1], words |-> <<WA, WB, WC>>, depth |-> 1, hce |-> TRUE,
       output |-> "none", mode |-> g[2], perm |-> FALSE,
       first |-> {1}, again |-> {},
       hits |-> {},
       conn |-> {<<"h", "/", "a">>, <<"h", "/", "b">>, <<"h", "/", "c">>},
       err |-> {}] :
         g \in {<<UrlNoSlash, "recursive">>, <<Template, "classic">>} }
    \cup
    \* a connect failure below a directory, and below a recorded failure
    { [url |-> UrlSlash, words |-> <<WA, WB>>, depth |-> 2, hce |-> TRUE,
       output |-> "none", mode |-> "recursive", perm |-> FALSE,
       first |-> {1}, again |-> {},
       hits |-> {<<"h", "/", "a">>},
       conn |-> {<<"h", "/", "b">>, <<"h", "/", "a", "/", "b">>,
                 <<"h", "/", "b", "/", "a">>},
       err |-> {}] }

InitErrors ==
    \E s \in ErrorScenarios :
      \E t \in (0 .. MaxThreads) \cap s.first :
        LET o == MakeOpts(s, t, FALSE, FALSE) IN
        /\ opts = o
        /\ env = MakeEnv(s)
        /\ tree = StartTree(o, NoFile)
        /\ depth = StartDepth(o, NoFile)
        /\ indexes = StartIndexes(o, NoFile)
        /\ chunks = WordChunks(o.words, o.threads)
        /\ has_saved = SavedUsable(o, NoFile)
        /\ coord = IdleCoord
        /\ workers = <<>>
        /\ reqlog = <<>>
        /\ aborted = FALSE
        /\ abort_handle = FALSE
        /\ sig = IdleSig
        /\ hand = NoSave
        /\ chan = 0
        /\ main = "await_run"
        /\ file = NoFile
        /\ resumed = Installed(o, NoFile)
        /\ runs = 1
        /\ exported = NoExport

NextErrors ==
    \/ CoordPoll
    \/ CoordRound
    \/ CoordRecv
    \/ CoordNextDepth
    \/ Worker
    \/ ClassicStart
    \/ ClassicDone
    \/ ClassicWorker
    \/ Sigint
    \/ HSignal
    \/ HSnapIndexes
    \/ HSerializeTree
    \/ HWrite
    \/ HSend
    \/ HEnd
    \/ MAwaitRun
    \/ MPost
    \/ MCheckAborted
    \/ MRecv
    \/ MClose
    \/ MJoin

SpecErrors == InitErrors /\ [][NextErrors]_vars

(***************************************************************************)
(* A recursive run whose rerun with --resume reads a wordlist that has     *)
(* changed in the meantime.                                                *)
(***************************************************************************)
ChangedWords == <<WA, WC>>

InitChanged ==
    /\ Init
    /\ env = MakeEnv(NestedScenario)
    /\ ~opts.no_save

RestartChanged == RestartWith(ChangedWords, {opts.depth})

NextChanged ==
    \/ CoordPoll
    \/ CoordRound
    \/ CoordRecv
    \/ CoordNextDepth
    \/ Worker
    \/ Sigint
    \/ HSignal
    \/ HSnapIndexes
    \/ HSerializeTree
    \/ HWrite
    \/ HSend
    \/ HEnd
    \/ MAwaitRun
    \/ MPost
    \/ MCheckAborted
    \/ MRecv
    \/ MClose
    \/ MJoin
    \/ RestartChanged

SpecChanged == InitChanged /\ [][NextChanged]_vars

(***************************************************************************)
(* A recursive run and its reruns, which may lower the maximum depth,      *)
(* under the scheduling the runtime gives: a task that can take a step     *)
(* takes one (the run task and the workers are spawned on the tokio        *)
(* runtime, which polls every woken task), and every request is answered.  *)
(* The signal task serializes the save record in one poll, so it ends the  *)
(* serialization it began (and unlocks the cursor map).                    *)
(***************************************************************************)
InitLive ==
    /\ Init
    /\ env = MakeEnv(NestedScenario)
    /\ ~opts.no_save

RestartDepth == RestartWith(opts.words, 1 .. opts.depth)

NextLive ==
    \/ CoordPoll
    \/ CoordRound
    \/ CoordRecv
    \/ CoordNextDepth
    \/ Worker
    \/ Sigint
    \/ HSignal
    \/ HSnapIndexes
    \/ HSerializeTree
    \/ HWrite
    \/ HSend
    \/ HEnd
    \/ MAwaitRun
    \/ MPost
    \/ MCheckAborted
    \/ MRecv
    \/ MClose
    \/ MJoin
    \/ RestartDepth

SpecLive ==
    /\ InitLive
    /\ [][NextLive]_vars
    /\ WF_vars(CoordPoll)
    /\ WF_vars(CoordRound)
    /\ WF_vars(CoordRecv)
    /\ WF_vars(CoordNextDepth)
    /\ WF_vars(Worker)
    /\ WF_vars(HSerializeTree)
    /\ WF_vars(HWrite)

(***************************************************************************)
(* Properties.  `reqlog[w]` is the sequence of word indices worker w has   *)
(* requested in the current process; `resumed` is what startup installed.  *)
(***************************************************************************)
\* worker w was spawned and has left its loop
Completed(w) ==
    /\ w \in DOMAIN reqlog
    /\ w \in DOMAIN workers => workers[w].pc = "sent"

\* every worker of node n's round was spawned and has completed
RoundComplete(n) ==
    \A i \in 1 .. Len(chunks) : Completed(Wid(n.id, i))

\* the cursor the save file held for (u, i); 0 where it held none
SavedCursor(u, i) ==
    IF u \in DOMAIN resumed.indexes /\ i \in DOMAIN resumed.indexes[u]
    THEN resumed.indexes[u][i] ELSE 0

SavedSum(u) ==
    IF u \in DOMAIN resumed.indexes THEN SumSeq(resumed.indexes[u]) ELSE 0

ParentDepth(w) == NodeOf(tree, w[1]).data.depth

\* C1: in a run that installed the saved cursors, each worker of a parent
\* requests the words of its chunk from the saved cursor on, in index order
\* and each once; when the parent's workers have completed, the requests
\* issued under it number |wordlist| minus the sum of its saved cursors and
\* every cursor of the parent equals its chunk's length.
C1_ResumeExact ==
    resumed.cursors =>
      \A n \in tree :
        LET u == n.data.url IN
        /\ \A i \in 1 .. Len(chunks) :
             Wid(n.id, i) \in DOMAIN reqlog =>
               \A j \in 1 .. Len(reqlog[Wid(n.id, i)]) :
                  reqlog[Wid(n.id, i)][j] = SavedCursor(u, i) + j - 1
        /\ RoundComplete(n) =>
             /\ SumSeq([i \in 1 .. Len(chunks) |->
                           Len(reqlog[Wid(n.id, i)])])
                  = Len(opts.words) - SavedSum(u)
             /\ indexes[u] = [i \in 1 .. Len(chunks) |-> Len(chunks[i])]

\* C2: while a worker of a depth-d parent has not been joined, no worker of
\* a deeper parent has issued a request, and the tree holds no node of depth
\* d+2 or more.
C2_DepthBarrier ==
    \A w1 \in DOMAIN workers :
       /\ \A w2 \in DOMAIN reqlog :
            ParentDepth(w2) > ParentDepth(w1) => reqlog[w2] = <<>>
       /\ \A n \in tree : n.data.depth < ParentDepth(w1) + 2

\* C2 witness: the workers of the root joined, a worker of a depth-1 parent
\* has requested and a node of depth 2 is in the tree
C2_Witness ==
    /\ runs = 1
    /\ \E w \in DOMAIN reqlog : ParentDepth(w) = 1 /\ reqlog[w] # <<>>
    /\ \E n \in tree : n.data.depth = 2

\* C3: the cursors of a URL never sum to more than |wordlist|, and sum to
\* |wordlist| once the workers of that parent's round have completed.
C3_CursorSum ==
    \A u \in DOMAIN indexes :
       /\ SumSeq(indexes[u]) <= Len(opts.words)
       /\ \A n \in tree :
            (n.data.url = u /\ RoundComplete(n)) =>
               SumSeq(indexes[u]) = Len(opts.words)

\* the words worker w has processed that its cursor already counts
Counted(w) ==
    workers[w].nwords -
       (IF workers[w].pc \in {"dup", "insert", "incr"} THEN 1 ELSE 0)

\* C4: a worker's cursor is the cursor it started from plus the number of
\* words it has processed, whatever their outcome (the increment is the
\* last step of processing a word), and within a run no cursor decreases.
C4_CursorSteps ==
    /\ [](\A w \in DOMAIN workers :
            w[2] \in DOMAIN indexes[ParentUrl(tree, w)] =>
               indexes[ParentUrl(tree, w)][w[2]]
                  = workers[w].first + Counted(w))
    /\ [][runs' = runs =>
            \A u \in DOMAIN indexes :
               /\ u \in DOMAIN indexes'
               /\ \A i \in DOMAIN indexes[u] :
                     /\ i \in DOMAIN indexes'[u]
                     /\ indexes'[u][i] >= indexes[u][i]]_vars

\* C4 witness: a worker has processed a recorded answer and a transport
\* error, and its cursor stands at 2
C4_Witness ==
    \E w \in DOMAIN workers :
       /\ w[1] = RootId
       /\ workers[w].pc = "sent"
       /\ workers[w].first = 0
       /\ workers[w].nwords = 2
       /\ env.err # {}
       /\ Children(tree, RootId) # {}
       /\ indexes[opts.url][w[2]] = 2

\* C5: no two children of one parent have the same path.
C5_UniquePaths ==
    \A n1 \in tree, n2 \in tree :
       (/\ n1.id # RootId
        /\ n2.id # RootId
        /\ Front(n1.id) = Front(n2.id)
        /\ n1.data.path = n2.data.path) => n1 = n2

\* C5 witness: a resumed worker holds a recorded answer for a word that is
\* already a child of its parent
C5_Witness ==
    \E w \in DOMAIN workers :
       /\ workers[w].pc = "dup"
       /\ AlreadyInTree(tree, w[1], WWord(w))

\* C6: the root has depth 0, every other node has its parent's depth plus
\* one, and a node inserted while the depth counter is d has depth d+1.
C6_Depths ==
    /\ [](\A n \in tree :
            IF n.id = RootId THEN n.data.depth = 0
            ELSE n.data.depth = NodeOf(tree, Front(n.id)).data.depth + 1)
    /\ [][runs' = runs =>
            \A n \in tree' \ tree : n.data.depth = depth + 1]_vars

\* C6 witness: in the round of depth 1 a node of depth 2 is in the tree
\* under a parent of depth 1
C6_Witness ==
    /\ depth = 1
    /\ \E n \in tree :
          /\ n.data.depth = 2
          /\ NodeOf(tree, Front(n.id)).data.depth = 1

\* the requests of worker w whose answer the worker has dealt with
Handled(w) ==
    IF w \in DOMAIN workers /\ workers[w].pc \in {"c_await", "c_insert"}
    THEN Front(reqlog[w]) ELSE reqlog[w]

RootChildrenFor(u) ==
    {n \in Children(tree, RootId) : n.data.url = u /\ n.data.depth = 0}

C8_SaveBeforeExit ==
    /\ (main = "exited" /\ aborted /\ ~opts.no_save) =>
          hand.pc \notin {"snap", "tree", "depth"}
    /\ opts.no_save => ~file.exists

\* C9: once the abort of the run has taken effect, no worker resumes from
\* the suspension it is in.
C9_WorkersDropped ==
    [][(coord.pc = "aborted" /\ runs' = runs) =>
          \A w \in DOMAIN workers :
             workers[w].pc = "await" =>
                (w \in DOMAIN workers' /\ workers'[w] = workers[w])]_vars

\* C10: after the coordinator has returned a worker's failure as the run's
\* result, no worker issues a request, inserts a node or advances a cursor.
C10_ErrorCancels ==
    [][(coord.pc = "err" /\ runs' = runs) =>
          (reqlog' = reqlog /\ tree' = tree /\ indexes' = indexes)]_vars

C12_SaveFileRemoval ==
    /\ []((main = "exited" /\ coord.pc = "ok" /\ opts.default_path) =>
             ~file.exists)
    /\ [][(coord.pc \in {"aborted", "err"} /\ file.exists) =>
             file'.exists]_vars

\* the run task of the current process has not ended
Running == main # "exited" /\ coord.pc \in {"loop", "join"}

\* the depth counter changes only by the coordinator's +1, with every worker
\* of the round joined
DepthSteps ==
    [][(runs' = runs /\ depth' # depth) =>
          (/\ depth' = depth + 1
           /\ coord.pc = "join"
           /\ coord.polling
           /\ \A j \in DOMAIN coord.rxs : coord.rxs[j] \notin DOMAIN workers
           /\ \A w \in DOMAIN workers : ParentDepth(w) # depth)]_vars

\* C13 as stated: the run that is neither interrupted nor failed by a worker
\* ends, with the depth counter equal to O.depth, and the counter moves only
\* by the coordinator's +1 after the joins.
C13_Original ==
    /\ Running ~> (coord.pc \in {"ok", "aborted", "err"})
    /\ [](coord.pc = "ok" => depth = opts.depth)
    /\ DepthSteps

\* C13 amended: ... with the depth counter equal to the larger of O.depth
\* and the depth the run started from (a rerun whose saved depth exceeds
\* O.depth ends at once, at the saved depth).
C13_Termination ==
    /\ Running ~> (coord.pc \in {"ok", "aborted", "err"})
    /\ [](coord.pc = "ok" => depth = Max(opts.depth, resumed.depth))
    /\ DepthSteps

\* C13 witness: a rerun started from saved depth 1 has ended cleanly at
\* O.depth = 2
C13_Witness ==
    /\ resumed.tree
    /\ resumed.depth = 1
    /\ opts.depth = 2
    /\ coord.pc = "ok"
    /\ depth = 2

\* the requests sent in the current process: (worker, position in its log)
Requests ==
    UNION {{<<w, j>> : j \in 1 .. Len(reqlog[w])} : w \in DOMAIN reqlog}

\* the URL a classic request was sent for
RequestUrl(q) == chunks[q[1][2]][reqlog[q[1]][q[2]] + 1]

RequestsFor(u) == {q \in Requests : RequestUrl(q) = u}

\* C14: without permutations and with one key in the template, no URL is
\* requested twice, every request is for the URL of a word, and a joined
\* run has requested the URL of every word exactly once: |W| requests, for
\* every thread count.
C14_OneRequestPerWord ==
    (~opts.permutations /\ CountMatches(opts.url, <<FuzzKey>>) = 1) =>
       /\ \A q \in Requests :
             /\ \E j \in 1 .. Len(opts.words) :
                   RequestUrl(q) = ReplaceAll(opts.url, <<FuzzKey>>,
                                              opts.words[j])
             /\ Cardinality(RequestsFor(RequestUrl(q))) = 1
       /\ coord.pc = "ok" =>
             /\ Cardinality(Requests) = Len(opts.words)
             /\ \A j \in 1 .. Len(opts.words) :
                   Cardinality(RequestsFor(
                      ReplaceAll(opts.url, <<FuzzKey>>, opts.words[j]))) = 1

\* C14 witness: 3 words and 2 threads, the run joined after 3 requests
C14_Witness ==
    /\ coord.pc = "ok"
    /\ Len(opts.words) = 3
    /\ opts.threads = 2
    /\ Cardinality(Requests) = 3

\* n (n-1) ... (n-k+1) = n!/(n-k)!, the number of ordered k-permutations
RECURSIVE Arrangements(_, _)
Arrangements(n, k) ==
    IF k = 0 THEN 1 ELSE IF k > n THEN 0 ELSE n * Arrangements(n - 1, k - 1)

\* the run task of a classic run has ended and was not aborted
ClassicEnded == opts.mode = "classic" /\ coord.pc \in {"ok", "err", "panic"}

\* C15: a classic run with permutations, k keys in the template and n words
\* has issued n!/(n-k)! requests when its run task ends, for every k and
\* every thread count.
C15_PermutationRequests ==
    (opts.permutations /\ ClassicEnded) =>
       Cardinality(Requests) =
          Arrangements(Len(opts.words), CountMatches(opts.url, <<FuzzKey>>))

\* the template with its successive keys, left to right, replaced by the
\* words at the positions c[1], c[2], ...
RECURSIVE SubstituteInOrder(_, _, _)
SubstituteInOrder(url, ws, c) ==
    IF url = <<>> THEN <<>>
    ELSE IF url[1] = FuzzKey /\ c # <<>>
         THEN ws[c[1]] \o SubstituteInOrder(Tail(url), ws, Tail(c))
         ELSE <<url[1]>> \o SubstituteInOrder(Tail(url), ws, c)

\* the URLs handed to the classic workers, in order
RECURSIVE Flatten(_)
Flatten(cs) == IF cs = <<>> THEN <<>> ELSE cs[1] \o Flatten(Tail(cs))

\* the classic run has generated and split its URLs
ClassicSplit == opts.mode = "classic" /\ coord.pc \in {"join", "ok"}

\* C16: with permutations, the URL generated for the ordered k-permutation
\* (w1..wk) is the template with its j-th key replaced by wj, for every j, and
\* nothing else is generated.
C16_KeysInOrder ==
    (opts.permutations /\ ClassicSplit) =>
       LET cs == KPermutations(Len(opts.words),
                               CountMatches(opts.url, <<FuzzKey>>))
           us == Flatten(chunks)
       IN  /\ Len(us) = Len(cs)
           /\ \A j \in 1 .. Len(cs) :
                 us[j] = SubstituteInOrder(opts.url, opts.words, cs[j])

\* C17: the work list is split into exactly T chunks, T the thread count
\* after clamping, and T workers are spawned: in total in classic mode, per
\* parent in recursive mode.
C17_ChunksPerThread ==
    /\ Len(chunks) = opts.threads
    /\ \A w \in DOMAIN reqlog : w[2] \in 1 .. opts.threads
    /\ ClassicSplit => Cardinality(DOMAIN reqlog) = opts.threads

\* C18: the chunk size of a split is at least 1: that of the wordlist at
\* startup, and that of the generated URLs once the classic runner has come
\* to its split.
C18_ChunkSize ==
    /\ Len(opts.words) \div opts.threads >= 1
    /\ (opts.mode = "classic" /\ coord.pc \in {"join", "ok", "panic"}) =>
          Len(GenerateUrls(opts)) \div ClassicThreads(opts) >= 1

\* C19: a classic run whose template holds no key generates the template as
\* its one candidate URL, requests it once, and its run task does not fail,
\* with and without permutations and for every thread count.
C19_NoKey ==
    (opts.mode = "classic" /\ CountMatches(opts.url, <<FuzzKey>>) = 0) =>
       /\ coord.pc \notin {"panic", "err"}
       /\ ClassicSplit => Flatten(chunks) = <<opts.url>>
       /\ coord.pc = "ok" => Cardinality(Requests) = 1

\* the requests of worker w, of either mode, whose answer it has dealt with
Dealt(w) ==
    IF /\ w \in DOMAIN workers
       /\ workers[w].pc \in {"await", "dup", "insert", "c_await", "c_insert"}
    THEN Front(reqlog[w]) ELSE reqlog[w]

\* the node recorded for a connect failure
Synthetic(n) == n.data.status_code = 0 /\ n.data.extra = "empty"

\* the children of node `parId` recorded for `word` (recursive mode)
ChildrenFor(parId, word) ==
    {c \in Children(tree, parId) : c.data.path = word}

C21_CheckAndInsert ==
    [][runs' = runs =>
          \A w \in DOMAIN workers :
             (/\ workers[w].pc = "insert"
              /\ w \in DOMAIN workers'
              /\ workers'[w].pc = "insert") =>
                Children(tree', w[1]) = Children(tree, w[1])]_vars

\* the requests made under node n for the word `word`, in this process
RequestsUnder(n, word) ==
    {q \in Requests :
        /\ q[1][1] = n.id
        /\ chunks[q[1][2]][reqlog[q[1]][q[2]] + 1] = word}

\* C22: in a fresh recursive run every node of a depth below the counter,
\* and every node of the counter's depth once the round is set up, was in
\* the frontier the coordinator read (a worker per chunk was spawned under
\* it); and when the run has ended Ok every node of depth below O.depth has
\* had every word requested under it exactly once.
C22_BfsComplete ==
    (opts.mode = "recursive" /\ runs = 1) =>
       /\ \A n \in tree :
             (\/ n.data.depth < depth
              \/ n.data.depth = depth /\ coord.pc = "join") =>
                \A i \in 1 .. Len(chunks) : Wid(n.id, i) \in DOMAIN reqlog
       /\ coord.pc = "ok" =>
             \A n \in tree :
                n.data.depth < opts.depth =>
                   \A k \in 1 .. Len(opts.words) :
                      Cardinality(RequestsUnder(n, opts.words[k])) = 1

\* C22 witness: a fresh run to depth 2 has ended, two directories were found
\* in the first round and each word was requested under each of them
C22_Witness ==
    /\ opts.mode = "recursive"
    /\ runs = 1
    /\ coord.pc = "ok"
    /\ depth = 2
    /\ Cardinality({n \in tree : n.data.depth = 1}) = 2
    /\ \A n \in tree :
          n.data.depth = 1 =>
             \A k \in 1 .. Len(opts.words) :
                Cardinality(RequestsUnder(n, opts.words[k])) = 1

\* C23: the save record is the tree, the depth counter and the cursor map of
\* one state of the run.  The cursor map cannot change from its clone to the
\* write; the serialized tree is the tree of the state it is taken in; and
\* from then to the read of the depth counter, whenever the counter changes
\* the run's tree is still the serialized one: so the record is the state at
\* the last change of the counter, or the state the tree was serialized in.
C23_AtomicSnapshot ==
    /\ [](hand.pc \in {"tree", "depth"} => hand.indexes = indexes)
    /\ [][(hand.pc = "tree" /\ hand'.pc = "depth") => hand'.tree = tree]_vars
    /\ [][(hand.pc = "depth" /\ hand'.pc = "depth" /\ depth' # depth) =>
            tree' = hand.tree]_vars
    /\ [][(hand.pc = "depth" /\ hand'.pc = "send") =>
            /\ file'.exists
            /\ file'.tree = hand.tree
            /\ file'.indexes = hand.indexes
            /\ file'.depth = depth]_vars

\* C23 witness: a record was written while a worker that had inserted its
\* child waited for the cursor map to advance its cursor, and the record is
\* the state of the run
C23_Witness ==
    /\ hand.pc = "send"
    /\ file.exists
    /\ file.tree = tree /\ file.indexes = indexes /\ file.depth = depth
    /\ Cardinality(tree) > 1
    /\ \E w \in DOMAIN workers : workers[w].pc = "incr"

\* in save record f every word below a saved cursor whose answer is one that
\* is recorded has its child in the saved tree
NoLostDiscovery(f) ==
    \A u \in DOMAIN f.indexes :
       \A i \in (DOMAIN f.indexes[u]) \cap (1 .. Len(chunks)) :
          \A j \in 1 .. Min(f.indexes[u][i], Len(chunks[i])) :
             Recorded(Respond(env, ChildUrl(u, chunks[i][j])), opts) =>
                \E p \in f.tree :
                   /\ p.data.url = u
                   /\ \E c \in Children(f.tree, p.id) :
                         c.data.path = chunks[i][j]

IdxLock      == <<"idx">>
TreeLock     == <<"tree">>
DepthLock    == <<"depth">>
NodeLock(id) == <<"node", id>>

\* a cursor increment that locks the parent node before the cursor map
IncrLocks_NodeFirst == <<"node", "idx">>

\* recursive.rs:144-153: indexes.lock().get_mut(&previous_node.lock()..)
CheckLocks == <<"idx", "node">>

\* recursive.rs:223-227: previous_node.lock().children.iter().any(|child|
\* child.lock()..)
DupLocks == <<"node", "children">>

\* recursive.rs:229, 264: tree.lock().insert(.., Some(previous_node)); the
\* insertion locks the parent to append the child
InsertLocks == <<"tree", "node">>

\* recursive.rs:288-291: indexes.lock().get_mut(&previous_node.lock()..)
IncrLocks == <<"idx", "node">>

\* the position of a worker that holds the first lock of its section
Held1 == [check |-> "check_1", dup |-> "dup_1", insert |-> "insert_1",
          incr |-> "incr_1"]

Section(pc) ==
    CASE pc \in {"check", "check_1"}   -> CheckLocks
      [] pc \in {"dup", "dup_1"}       -> DupLocks
      [] pc \in {"insert", "insert_1"} -> InsertLocks
      [] pc \in {"incr", "incr_1"}     -> IncrLocks
      [] OTHER                         -> <<>>

Stage(pc) == IF pc \in {Held1[b] : b \in DOMAIN Held1} THEN 1 ELSE 0

\* the mutexes a lock name of a section stands for, for worker w
LocksNamed(kind, w) ==
    CASE kind = "idx"      -> {IdxLock}
      [] kind = "tree"     -> {TreeLock}
      [] kind = "node"     -> {NodeLock(w[1])}
      [] kind = "children" -> {NodeLock(c.id) : c \in Children(tree, w[1])}

WorkerHolds(w) ==
    IF Stage(workers[w].pc) = 1
    THEN LocksNamed(Section(workers[w].pc)[1], w) ELSE {}

\* recursive.rs:195: a worker reads the depth counter (no other lock held)
\* when the response has arrived
WorkerWants(w) ==
    LET pc == workers[w].pc IN
    IF Section(pc) # <<>> THEN LocksNamed(Section(pc)[Stage(pc) + 1], w)
    ELSE IF pc = "await" THEN {DepthLock}
    ELSE {}

\* the tree in preorder (the order of the traversals)
TreeOrder == PreorderFrom(tree, NodeOf(tree, RootId))

\* a traversal that is about to visit order[n] holds the locks of that
\* node's ancestors
PathLocks(order, n) ==
    IF n \in DOMAIN order
    THEN {NodeLock(SubSeq(order[n].id, 1, j)) :
              j \in 0 .. Len(order[n].id) - 1}
    ELSE {}

VisitLocks(order, n) ==
    IF n \in DOMAIN order THEN {NodeLock(order[n].id)} ELSE {}

\* recursive.rs:31-64: the coordinator
CoordHolds ==
    CASE coord.pc = "front_1" -> {TreeLock}
      [] coord.pc = "front_2" -> {TreeLock, DepthLock}
                                   \cup PathLocks(TreeOrder, coord.n)
      [] coord.pc \in {"spawn_1", "spawn_2"} -> {IdxLock}
      [] OTHER -> {}

CoordWants ==
    CASE coord.pc = "loop" /\ coord.polling -> {DepthLock}
      [] coord.pc = "front"   -> {TreeLock}
      [] coord.pc = "front_1" -> {DepthLock}
      [] coord.pc = "front_2" -> VisitLocks(TreeOrder, coord.n)
      [] coord.pc = "spawn"   -> IF coord.n \in DOMAIN coord.nodes
                                 THEN {IdxLock} ELSE {}
      [] coord.pc = "spawn_1" -> {NodeLock(coord.nodes[coord.n].id)}
      [] coord.pc = "spawn_2" -> {DepthLock}
      [] coord.pc = "join" /\ coord.polling /\ JoinedAll(coord) -> {DepthLock}
      [] OTHER -> {}

\* main.rs:215-220: the signal task
HandHolds ==
    CASE hand.pc = "tree"  -> {IdxLock}
      [] hand.pc = "nodes" -> {IdxLock, TreeLock}
                                \cup PathLocks(TreeOrder, hand.n)
      [] hand.pc = "depth" -> {IdxLock}
      [] OTHER -> {}

HandWants ==
    CASE hand.pc = "snap"  -> {IdxLock}
      [] hand.pc = "tree"  -> {TreeLock}
      [] hand.pc = "nodes" -> VisitLocks(TreeOrder, hand.n)
      [] hand.pc = "depth" -> {DepthLock}
      [] OTHER -> {}

CoordP     == <<"coord", <<>>>>
HandP      == <<"hand", <<>>>>
WorkerP(w) == <<"worker", w>>

Procs == {CoordP, HandP} \cup {WorkerP(w) : w \in DOMAIN workers}

Holds(p) ==
    IF p = CoordP THEN CoordHolds
    ELSE IF p = HandP THEN HandHolds
    ELSE WorkerHolds(p[2])

Wants(p) ==
    IF p = CoordP THEN CoordWants
    ELSE IF p = HandP THEN HandWants
    ELSE WorkerWants(p[2])

HeldBy(S) == UNION {Holds(q) : q \in S}

\* lock(): the caller goes on when nobody holds the mutex
CanLock(p) == Wants(p) \cap HeldBy(Procs) = {}

\* recursive.rs:31: the loop condition reads the depth counter
LCoordLoop ==
    /\ Alive
    /\ coord.pc = "loop"
    /\ coord.polling
    /\ opts.mode = "recursive"
    /\ CanLock(CoordP)
    /\ coord' = [coord EXCEPT
                    !.pc = IF DepthReached(depth, opts) THEN "ok" ELSE "front"]
    /\ UNCHANGED <<opts, env, tree, depth, indexes, chunks, has_saved, workers,
                   reqlog, aborted, abort_handle, sig, hand, chan, main, file,
                   resumed, runs,
                   exported>>

\* recursive.rs:32: self.tree.lock() ..
LCoordTree ==
    /\ Alive
    /\ coord.pc = "front"
    /\ CanLock(CoordP)
    /\ coord' = [coord EXCEPT !.pc = "front_1"]
    /\ UNCHANGED <<opts, env, tree, depth, indexes, chunks, has_saved, workers,
                   reqlog, aborted, abort_handle, sig, hand, chan, main, file,
                   resumed, runs,
                   exported>>

\* recursive.rs:32: .. get_nodes_at_depth(*self.depth.lock())
LCoordDepth ==
    /\ Alive
    /\ coord.pc = "front_1"
    /\ CanLock(CoordP)
    /\ coord' = [coord EXCEPT !.pc = "front_2", !.n = 1]
    /\ UNCHANGED <<opts, env, tree, depth, indexes, chunks, has_saved, workers,
                   reqlog, aborted, abort_handle, sig, hand, chan, main, file,
                   resumed, runs,
                   exported>>

\* get_nodes_at_depth visits the next node of the tree
LCoordVisit ==
    /\ Alive
    /\ coord.pc = "front_2"
    /\ coord.n \in DOMAIN TreeOrder
    /\ CanLock(CoordP)
    /\ coord' = [coord EXCEPT !.n = @ + 1]
    /\ UNCHANGED <<opts, env, tree, depth, indexes, chunks, has_saved, workers,
                   reqlog, aborted, abort_handle, sig, hand, chan, main, file,
                   resumed, runs,
                   exported>>

\* recursive.rs:32-35: the frontier is known, the tree and the depth are
\* unlocked
LCoordFrontier ==
    /\ Alive
    /\ coord.pc = "front_2"
    /\ coord.n \notin DOMAIN TreeOrder
    /\ coord' = [coord EXCEPT !.pc = "spawn", !.n = 1, !.rxs = <<>>,
                              !.nodes = NodesAtDepth(tree, depth)]
    /\ UNCHANGED <<opts, env, tree, depth, indexes, chunks, has_saved, workers,
                   reqlog, aborted, abort_handle, sig, hand, chan, main, file,
                   resumed, runs,
                   exported>>

\* recursive.rs:38: let mut indexes = self.current_indexes.lock()
LCoordIdx ==
    /\ Alive
    /\ coord.pc = "spawn"
    /\ coord.n \in DOMAIN coord.nodes
    /\ CanLock(CoordP)
    /\ coord' = [coord EXCEPT !.pc = "spawn_1"]
    /\ UNCHANGED <<opts, env, tree, depth, indexes, chunks, has_saved, workers,
                   reqlog, aborted, abort_handle, sig, hand, chan, main, file,
                   resumed, runs,
                   exported>>

\* recursive.rs:40-53: previous_node.lock() while the cursor map is locked
LCoordNode ==
    /\ Alive
    /\ coord.pc = "spawn_1"
    /\ CanLock(CoordP)
    /\ coord' = [coord EXCEPT !.pc = "spawn_2"]
    /\ UNCHANGED <<opts, env, tree, depth, indexes, chunks, has_saved, workers,
                   reqlog, aborted, abort_handle, sig, hand, chan, main, file,
                   resumed, runs,
                   exported>>

\* recursive.rs:39-95: depth.lock() while the cursor map is locked; the
\* parent's cursors exist, its workers are spawned, the cursor map is
\* unlocked at the end of the iteration
LCoordSpawn ==
    /\ Alive
    /\ coord.pc = "spawn_2"
    /\ CanLock(CoordP)
    /\ LET node == coord.nodes[coord.n]
           idx  == OrInsert(indexes, {node.data.url}, Len(chunks))
           rxs  == SpawnOrder(<<node>>, Len(chunks))
           wids == {rxs[j] : j \in DOMAIN rxs}
       IN  /\ indexes' = idx
           /\ workers' =
                [w \in (DOMAIN workers) \cup wids |->
                   IF w \in wids
                   THEN NewWorker(CursorAt(idx, ParentUrl(tree, w), w[2]))
                   ELSE workers[w]]
           /\ reqlog' = [w \in (DOMAIN reqlog) \cup wids |->
                           IF w \in wids THEN <<>> ELSE reqlog[w]]
           /\ coord' = [coord EXCEPT !.pc = "spawn", !.n = @ + 1,
                                     !.rxs = @ \o rxs]
    /\ UNCHANGED <<opts, env, tree, depth, chunks, has_saved, aborted,
                   abort_handle, sig, hand, chan, main, file, resumed, runs,
                   exported>>

\* recursive.rs:96-98: every parent has its workers; the receivers are read
LCoordJoin ==
    /\ Alive
    /\ coord.pc = "spawn"
    /\ coord.n \notin DOMAIN coord.nodes
    /\ coord' = [coord EXCEPT !.pc = "join", !.k = 1]
    /\ UNCHANGED <<opts, env, tree, depth, indexes, chunks, has_saved, workers,
                   reqlog, aborted, abort_handle, sig, hand, chan, main, file,
                   resumed, runs,
                   exported>>

\* recursive.rs:108: *depth.lock() += 1
LCoordNextDepth == CanLock(CoordP) /\ CoordNextDepth

\* a worker takes the first lock of its section
LWLock(w) ==
    /\ Alive
    /\ workers[w].pc \in DOMAIN Held1
    /\ CanLock(WorkerP(w))
    /\ workers' = [workers EXCEPT ![w].pc = Held1[workers[w].pc]]
    /\ UNCHANGED <<opts, env, tree, depth, indexes, chunks, has_saved, coord,
                   reqlog, aborted, abort_handle, sig, hand, chan, main, file,
                   resumed, runs,
                   exported>>

\* a worker takes the second lock of its section, acts and unlocks both
LWSend(w)     == CanLock(WorkerP(w)) /\ WSendAt(w, Held1["check"])
LWDupCheck(w) == CanLock(WorkerP(w)) /\ WDupCheckAt(w, Held1["dup"])
LWInsert(w)   == CanLock(WorkerP(w)) /\ WInsertAt(w, Held1["insert"])
LWAdvance(w)  == CanLock(WorkerP(w)) /\ WAdvanceAt(w, Held1["incr"])
LWResponse(w) == CanLock(WorkerP(w)) /\ WResponse(w)

LWorker ==
    \E w \in DOMAIN workers :
       \/ LWLock(w)
       \/ LWSend(w)
       \/ LWResponse(w)
       \/ LWDupCheck(w)
       \/ LWInsert(w)
       \/ LWAdvance(w)

\* main.rs:219: current_indexes.lock().clone()
LHSnapIndexes == CanLock(HandP) /\ HSnapIndexes

\* main.rs:215-216: the tree is locked for its serialization
LHTree ==
    /\ Alive
    /\ hand.pc = "tree"
    /\ CanLock(HandP)
    /\ hand' = [pc |-> "nodes", indexes |-> hand.indexes, n |-> 1]
    /\ UNCHANGED <<opts, env, tree, depth, indexes, chunks, has_saved, coord,
                   workers, reqlog, aborted, abort_handle, sig, chan, main,
                   file, resumed, runs,
                   exported>>

\* the serialization visits the next node of the tree
LHVisit ==
    /\ Alive
    /\ hand.pc = "nodes"
    /\ hand.n \in DOMAIN TreeOrder
    /\ CanLock(HandP)
    /\ hand' = [hand EXCEPT !.n = @ + 1]
    /\ UNCHANGED <<opts, env, tree, depth, indexes, chunks, has_saved, coord,
                   workers, reqlog, aborted, abort_handle, sig, chan, main,
                   file, resumed, runs,
                   exported>>

\* the tree is serialized and unlocked
LHSerializeTree ==
    /\ hand.pc = "nodes"
    /\ hand.n \notin DOMAIN TreeOrder
    /\ HSerializeTreeAt("nodes")

\* main.rs:217-231
LHWrite == CanLock(HandP) /\ HWrite

LockCoord ==
    [pc |-> "loop", polling |-> FALSE, rxs |-> <<>>, k |-> 1,
     nodes |-> <<>>, n |-> 1]

LockScenarios ==
    { \* two directories at the first level, two levels
      [url |-> UrlSlash, words |-> <<WA, WB>>, depth |-> 2, hce |-> FALSE,
       output |-> "none", mode |-> "recursive", perm |-> FALSE,
       first |-> {1}, again |-> {},
       hits |-> {<<"h", "/", "a">>, <<"h", "/", "b">>,
                 <<"h", "/", "a", "/", "b">>},
       conn |-> {}, err |-> {}],
      \* one level, a worker per word
      [url |-> UrlSlash, words |-> <<WA, WB>>, depth |-> 1, hce |-> FALSE,
       output |-> "none", mode |-> "recursive", perm |-> FALSE,
       first |-> 1 .. MaxThreads, again |-> {},
       hits |-> {<<"h", "/", "a">>, <<"h", "/", "b">>},
       conn |-> {}, err |-> {}] }

InitLocks ==
    \E s \in LockScenarios :
      \E t \in (0 .. MaxThreads) \cap s.first :
        LET o == MakeOpts(s, t, FALSE, FALSE) IN
        /\ opts = o
        /\ env = MakeEnv(s)
        /\ tree = StartTree(o, NoFile)
        /\ depth = StartDepth(o, NoFile)
        /\ indexes = StartIndexes(o, NoFile)
        /\ chunks = WordChunks(o.words, o.threads)
        /\ has_saved = SavedUsable(o, NoFile)
        /\ coord = LockCoord
        /\ workers = <<>>
        /\ reqlog = <<>>
        /\ aborted = FALSE
        /\ abort_handle = FALSE
        /\ sig = IdleSig
        /\ hand = NoSave
        /\ chan = 0
        /\ main = "await_run"
        /\ file = NoFile
        /\ resumed = Installed(o, NoFile)
        /\ runs = 1
        /\ exported = NoExport

NextLocks ==
    \/ CoordPoll
    \/ LCoordLoop
    \/ LCoordTree
    \/ LCoordDepth
    \/ LCoordVisit
    \/ LCoordFrontier
    \/ LCoordIdx
    \/ LCoordNode
    \/ LCoordSpawn
    \/ LCoordJoin
    \/ CoordRecv
    \/ LCoordNextDepth
    \/ LWorker
    \/ Sigint
    \/ HSignal
    \/ LHSnapIndexes
    \/ LHTree
    \/ LHVisit
    \/ LHSerializeTree
    \/ LHWrite
    \/ HSend

SpecLocks == InitLocks /\ [][NextLocks]_vars

\* C25: in a recursive run no set of processes (coordinator, workers, signal
\* task) is ever such that each of them asks for a mutex that a member of
\* the set holds: whoever waits, waits for a process that can still go on
C25_NoDeadlock ==
    \A S \in SUBSET Procs :
       S # {} => \E p \in S : Wants(p) \cap HeldBy(S) = {}

\* contention: a worker waits for the cursor map that the signal task holds
\* while the signal task waits for the tree that another worker holds
C25_Witness ==
    /\ hand.pc = "tree"
    /\ \E w \in DOMAIN workers : workers[w].pc \in {"check", "incr"}
    /\ \E w \in DOMAIN workers : workers[w].pc = "insert_1"

\* C26: in every state of a recursive run, first or resumed, every cursor
\* vector has one entry per chunk of the run and no cursor is beyond the end
\* of its chunk
C26_CursorBounds ==
    opts.mode = "recursive" =>
       \A u \in DOMAIN indexes :
          /\ Len(indexes[u]) = Len(chunks)
          /\ \A i \in 1 .. Len(chunks) : indexes[u][i] <= Len(chunks[i])

(***************************************************************************)
(* One process and several SIGINTs, under the scheduling of the runtime:   *)
(* every task that can go on is polled again (weak fairness of the steps   *)
(* of the run task, the workers, the signal task and the main task); the   *)
(* signals come when they come.                                            *)
(***************************************************************************)
SignalScenarios ==
    { [url |-> UrlSlash, words |-> <<WA>>, depth |-> 1, hce |-> FALSE,
       output |-> "none", mode |-> "recursive", perm |-> FALSE,
       first |-> {1}, again |-> {},
       hits |-> {<<"h", "/", "a">>}, conn |-> {}, err |-> {}] }

InitSignals ==
    \E s \in SignalScenarios, ns \in BOOLEAN :
      \E t \in (0 .. MaxThreads) \cap s.first :
        LET o == MakeOpts(s, t, FALSE, ns) IN
        /\ opts = o
        /\ env = MakeEnv(s)
        /\ tree = StartTree(o, NoFile)
        /\ depth = StartDepth(o, NoFile)
        /\ indexes = StartIndexes(o, NoFile)
        /\ chunks = WordChunks(o.words, o.threads)
        /\ has_saved = SavedUsable(o, NoFile)
        /\ coord = IdleCoord
        /\ workers = <<>>
        /\ reqlog = <<>>
        /\ aborted = FALSE
        /\ abort_handle = FALSE
        /\ sig = IdleSig
        /\ hand = NoSave
        /\ chan = 0
        /\ main = "await_run"
        /\ file = NoFile
        /\ resumed = Installed(o, NoFile)
        /\ runs = 1
        /\ exported = NoExport

SigintMany == SigintUpTo(ManySignals)

Handler ==
    \/ HSignal
    \/ HSnapIndexes
    \/ HSerializeTree
    \/ HWrite
    \/ HSend
    \/ HEnd

MainTask ==
    \/ MAwaitRun
    \/ MPost
    \/ MCheckAborted
    \/ MRecv
    \/ MClose
    \/ MJoin

NextSignals ==
    \/ CoordPoll
    \/ CoordRound
    \/ CoordRecv
    \/ CoordNextDepth
    \/ Worker
    \/ SigintMany
    \/ Handler
    \/ MainTask

SpecSignals ==
    /\ InitSignals
    /\ [][NextSignals]_vars
    /\ WF_vars(CoordPoll)
    /\ WF_vars(CoordRound)
    /\ WF_vars(CoordRecv)
    /\ WF_vars(CoordNextDepth)
    /\ WF_vars(Worker)
    /\ WF_vars(Handler)
    /\ WF_vars(MainTask)

\* C27: whenever the run task has ended, the main task eventually returns
\* (the process exits), whatever the number of SIGINTs delivered and the
\* points at which they are delivered
C27_MainTerminates == RunEnded ~> (main = "exited")

(***************************************************************************)
(* Runs that export the tree to a flat file (csv, md, txt), recursive and  *)
(* classic.                                                                *)
(***************************************************************************)
ExportScenarios ==
    { \* recursive, two levels, a directory in a directory
      [url |-> UrlSlash, words |-> <<WA, WB>>, depth |-> 2, hce |-> FALSE,
       output |-> "csv", mode |-> "recursive", perm |-> FALSE,
       first |-> {1}, again |-> {},
       hits |-> {<<"h", "/", "a">>, <<"h", "/", "a", "/", "b">>},
       conn |-> {}, err |-> {}],
      \* recursive, one level, two discoveries
      [url |-> UrlSlash, words |-> <<WA, WB>>, depth |-> 1, hce |-> FALSE,
       output |-> "md", mode |-> "recursive", perm |-> FALSE,
       first |-> 1 .. MaxThreads, again |-> {},
       hits |-> {<<"h", "/", "a">>, <<"h", "/", "b">>},
       conn |-> {}, err |-> {}],
      \* recursive, one level, nothing found
      [url |-> UrlSlash, words |-> <<WA, WB>>, depth |-> 1, hce |-> FALSE,
       output |-> "txt", mode |-> "recursive", perm |-> FALSE,
       first |-> 1 .. MaxThreads, again |-> {},
       hits |-> {}, conn |-> {}, err |-> {}],
      \* classic, two discoveries
      [url |-> Template, words |-> <<WA, WB>>, depth |-> 1, hce |-> FALSE,
       output |-> "txt", mode |-> "classic", perm |-> FALSE,
       first |-> 1 .. MaxThreads, again |-> {},
       hits |-> {<<"h", "/", "a">>, <<"h", "/", "b">>},
       conn |-> {}, err |-> {}] }

InitExport ==
    \E s \in ExportScenarios :
      \E t \in (0 .. MaxThreads) \cap s.first :
        LET o == MakeOpts(s, t, FALSE, FALSE) IN
        /\ opts = o
        /\ env = MakeEnv(s)
        /\ tree = StartTree(o, NoFile)
        /\ depth = StartDepth(o, NoFile)
        /\ indexes = StartIndexes(o, NoFile)
        /\ chunks = WordChunks(o.words, o.threads)
        /\ has_saved = SavedUsable(o, NoFile)
        /\ coord = IdleCoord
        /\ workers = <<>>
        /\ reqlog = <<>>
        /\ aborted = FALSE
        /\ abort_handle = FALSE
        /\ sig = IdleSig
        /\ hand = NoSave
        /\ chan = 0
        /\ main = "await_run"
        /\ file = NoFile
        /\ resumed = Installed(o, NoFile)
        /\ runs = 1
        /\ exported = NoExport

NextExport ==
    \/ CoordPoll
    \/ CoordRound
    \/ ClassicStart
    \/ CoordRecv
    \/ CoordNextDepth
    \/ ClassicDone
    \/ Worker
    \/ ClassicWorker
    \/ Sigint
    \/ Handler
    \/ MainTask

SpecExport == InitExport /\ [][NextExport]_vars

\* the number of rows of the output file that are the row of node n
RowsOf(n) ==
    Cardinality({j \in DOMAIN exported.rows :
                    exported.rows[j] = Row(opts.output, n)})

\* C28: once a run that ended cleanly has written its flat output file
\* (csv, md, txt), the file holds every node of the tree exactly once, in
\* classic and in recursive mode
C28_FlatExport ==
    (/\ opts.output \in FlatTypes
     /\ coord.pc = "ok"
     /\ main \notin {"await_run", "post"}) =>
        \A n \in tree : RowsOf(n) = 1

=============================================================================
